---- MODULE Spec2Model ----
(***************************************************************************)
(* Model of the Jusur deal calculator (JusurCalcApp): the component state  *)
(* (model, inputs), the handlers that change it, and the derived values    *)
(* computeResults, breakEvenPrice and sensitivityData.                     *)
(*                                                                         *)
(* Numbers.  The code computes in JavaScript numbers.  A number is         *)
(* modelled as a normalised fraction [n, d]: d > 0 is the finite value     *)
(* n/d, and d = 0 is a non-finite value (n = 1: Infinity, n = -1:          *)
(* -Infinity, n = 0: NaN).  Arithmetic on finite values is exact (the      *)
(* binary64 rounding of each operation is not modelled); division by zero, *)
(* NaN propagation, Math.max/Math.min on NaN and the falsiness of 0 and    *)
(* NaN under `||` follow the language.  A zero denominator in the code is  *)
(* always +0 (it is 1 - a - b - c, or guarded by a > 0 test), so x / 0     *)
(* takes the sign of x.                                                    *)
(***************************************************************************)
EXTENDS Integers, Sequences, FiniteSets, TLC

(* ------------------------------ numbers -------------------------------- *)

Abs(x) == IF x < 0 THEN -x ELSE x

Sign(x) == IF x < 0 THEN -1 ELSE IF x > 0 THEN 1 ELSE 0

RECURSIVE GCD(_, _)
GCD(a, b) == IF b = 0 THEN a ELSE GCD(b, a % b)

\* The fraction n/d, d # 0, in lowest terms with a positive denominator.
Rat(n, d) ==
    IF d = 1 THEN [n |-> n, d |-> 1]
    ELSE LET g == GCD(Abs(n), Abs(d))
             s == IF d < 0 THEN -1 ELSE 1
         IN  [n |-> (s * n) \div g, d |-> (s * d) \div g]

Num(i) == [n |-> i, d |-> 1]

Zero == Num(0)

NaN == [n |-> 0, d |-> 0]

PosInf == [n |-> 1, d |-> 0]

NegInf == [n |-> -1, d |-> 0]

IsFinite(a) == a.d > 0

IsNaN(a) == a.d = 0 /\ a.n = 0

Neg(a) == [n |-> -a.n, d |-> a.d]

\* a + b
Add(a, b) ==
    IF IsFinite(a) /\ IsFinite(b)
    THEN IF a.d = 1 /\ b.d = 1
         THEN [n |-> a.n + b.n, d |-> 1]
         ELSE LET g == GCD(a.d, b.d)
              IN  Rat(a.n * (b.d \div g) + b.n * (a.d \div g),
                      (a.d \div g) * b.d)
    ELSE IF IsNaN(a) \/ IsNaN(b) THEN NaN
    ELSE IF IsFinite(a) THEN b
    ELSE IF IsFinite(b) THEN a
    ELSE IF a.n = b.n THEN a ELSE NaN

\* a - b
Sub(a, b) == Add(a, Neg(b))

\* a * b
Mul(a, b) ==
    IF IsFinite(a) /\ IsFinite(b)
    THEN IF a.d = 1 /\ b.d = 1
         THEN [n |-> a.n * b.n, d |-> 1]
         ELSE LET g1 == GCD(Abs(a.n), b.d)
                  g2 == GCD(Abs(b.n), a.d)
              IN  [n |-> (a.n \div g1) * (b.n \div g2),
                   d |-> (a.d \div g2) * (b.d \div g1)]
    ELSE IF IsNaN(a) \/ IsNaN(b) THEN NaN
    ELSE [n |-> Sign(a.n) * Sign(b.n), d |-> 0]

\* a / b
Div(a, b) ==
    IF IsNaN(a) \/ IsNaN(b) THEN NaN
    ELSE IF IsFinite(b)
    THEN IF b.n = 0
         THEN [n |-> Sign(a.n), d |-> 0]
         ELSE IF IsFinite(a)
              THEN Mul(a, Rat(b.d, b.n))
              ELSE [n |-> Sign(a.n) * Sign(b.n), d |-> 0]
    ELSE IF IsFinite(a) THEN Zero ELSE NaN

\* a < b (false when either side is NaN)
Lt(a, b) ==
    /\ ~IsNaN(a)
    /\ ~IsNaN(b)
    /\ IF IsFinite(a) /\ IsFinite(b)
       THEN IF a.d = b.d
            THEN a.n < b.n
            ELSE LET g == GCD(a.d, b.d)
                 IN  a.n * (b.d \div g) < b.n * (a.d \div g)
       ELSE IF IsFinite(a) THEN b.n > 0
       ELSE IF IsFinite(b) THEN a.n < 0
       ELSE a.n < b.n

\* a <= b (false when either side is NaN)
Leq(a, b) == ~IsNaN(a) /\ ~IsNaN(b) /\ ~Lt(b, a)

\* a > b
Gt(a, b) == Lt(b, a)

\* a >= b
Geq(a, b) == Leq(b, a)

\* Math.max(a, b)
Max(a, b) == IF IsNaN(a) \/ IsNaN(b) THEN NaN ELSE IF Lt(a, b) THEN b ELSE a

\* Math.min(a, b)
Min(a, b) == IF IsNaN(a) \/ IsNaN(b) THEN NaN ELSE IF Lt(b, a) THEN b ELSE a

\* A number is falsy when it is 0 or NaN.
Falsy(a) == a.n = 0

(* ------------------------- inputs and fields --------------------------- *)

\* The four values the model selector offers.
Models == {"SLIDING", "PROGRESSIVE", "FLAT", "ROI"}

\* A numeric property that is read from an object that does not have it.
Undefined == [undefined |-> TRUE]

Has(p, k) == k \in DOMAIN p

\* (p.k || 0): 0 when the property is absent, 0 or NaN.
OrZero(p, k) == IF Has(p, k) /\ ~Falsy(p[k]) THEN p[k] ELSE Zero

\* p.k used in arithmetic without a guard: an absent property is NaN.
ToNumber(p, k) == IF Has(p, k) THEN p[k] ELSE NaN

\* p.k ? a : b on a boolean property: an absent property is falsy.
Truthy(p, k) == Has(p, k) /\ p[k] = TRUE

\* p.k copied into another object.
Echo(p, k) == IF Has(p, k) THEN p[k] ELSE Undefined

defaultInputs ==
    [buyPrice |-> Zero, sellPrice |-> Zero, buyCommPct |-> Zero,
     sellCommPct |-> Zero, holdingMonths |-> Zero, flatPct |-> Zero,
     roiTier1 |-> Zero, roiTier2 |-> Zero, roiPct1 |-> Zero, roiPct2 |-> Zero,
     roiPct3 |-> Zero, agentCommPct |-> Zero, agentCommAmount |-> Zero,
     useAgentPct |-> TRUE, targetROI |-> Num(10), retTaxPct |-> Rat(5, 2),
     useRetTax |-> FALSE, otherExpenses |-> Zero]

\* clamp without its ceiling.
clampNoCeiling(v, min, max) == Max(min, v)

clamp(v, min, max) == Max(min, Min(max, v))

(* --------------------------- computeResults ---------------------------- *)

SlidingScale == 2000000

ProgressiveTier1 == 500000

ProgressiveTier2 == 1000000

\* Sliding with the ramp spread over 1,000,000 instead of 2,000,000.
SlidingPctWrongScale(totalProfit) ==
    clamp(Add(Rat(1, 5), Mul(Div(totalProfit, Num(1000000)), Rat(1, 4))),
          Rat(1, 5), Rat(9, 20))

\* Sliding: 20% + (profit / 2,000,000) * 25%, capped at 45%.
SlidingPct(totalProfit) ==
    clamp(Add(Rat(1, 5), Mul(Div(totalProfit, Num(SlidingScale)), Rat(1, 4))),
          Rat(1, 5), Rat(9, 20))

\* Progressive with the rate of the bracket reached charged on the whole
\* profit instead of on each bracket's part.
ProgressivePctWholeProfit(totalProfit) ==
    IF Leq(totalProfit, Num(ProgressiveTier1)) THEN Rat(1, 4)
    ELSE IF Leq(totalProfit, Num(ProgressiveTier2)) THEN Rat(7, 20)
    ELSE Rat(9, 20)

\* Progressive: 25% up to 500k, 35% on the next 500k, 45% on the remainder.
ProgressivePct(totalProfit) ==
    LET tier1 == Min(totalProfit, Num(ProgressiveTier1))
        tier2 == Min(Max(Sub(totalProfit, Num(ProgressiveTier1)), Zero),
                     Num(ProgressiveTier1))
        tier3 == Max(Sub(totalProfit, Num(ProgressiveTier2)), Zero)
        jusurCut == Add(Add(Mul(tier1, Rat(1, 4)), Mul(tier2, Rat(7, 20))),
                        Mul(tier3, Rat(9, 20)))
    IN  Div(jusurCut, totalProfit)

\* Flat without the clamp.
FlatPctUnclamped(p) == Div(OrZero(p, "flatPct"), Num(100))

FlatPct(p) == clamp(Div(OrZero(p, "flatPct"), Num(100)), Zero, Rat(9, 10))

\* ROI tiers with the boundaries given to the upper tier (< for <=).
RoiPctStrict(p, totalProfit, costToBuy) ==
    LET investorROI == IF Gt(costToBuy, Zero)
                       THEN Mul(Div(totalProfit, costToBuy), Num(100))
                       ELSE Zero
    IN  IF Lt(investorROI, OrZero(p, "roiTier1"))
        THEN Div(OrZero(p, "roiPct1"), Num(100))
        ELSE IF Lt(investorROI, OrZero(p, "roiTier2"))
        THEN Div(OrZero(p, "roiPct2"), Num(100))
        ELSE Div(OrZero(p, "roiPct3"), Num(100))

\* ROI tiers with the ROI taken without looking at costToBuy.
RoiPctUnguarded(p, totalProfit, costToBuy) ==
    LET investorROI == Mul(Div(totalProfit, costToBuy), Num(100))
    IN  IF Leq(investorROI, OrZero(p, "roiTier1"))
        THEN Div(OrZero(p, "roiPct1"), Num(100))
        ELSE IF Leq(investorROI, OrZero(p, "roiTier2"))
        THEN Div(OrZero(p, "roiPct2"), Num(100))
        ELSE Div(OrZero(p, "roiPct3"), Num(100))

\* ROI tiers with the two thresholds put in ascending order first.
RoiPctSortedTiers(p, totalProfit, costToBuy) ==
    LET investorROI == IF Gt(costToBuy, Zero)
                       THEN Mul(Div(totalProfit, costToBuy), Num(100))
                       ELSE Zero
        low == Min(OrZero(p, "roiTier1"), OrZero(p, "roiTier2"))
        high == Max(OrZero(p, "roiTier1"), OrZero(p, "roiTier2"))
    IN  IF Leq(investorROI, low)
        THEN Div(OrZero(p, "roiPct1"), Num(100))
        ELSE IF Leq(investorROI, high)
        THEN Div(OrZero(p, "roiPct2"), Num(100))
        ELSE Div(OrZero(p, "roiPct3"), Num(100))

\* ROI tiers tested one after the other without else: a later test that
\* succeeds overrides an earlier one.
RoiPctNoElse(p, totalProfit, costToBuy) ==
    LET investorROI == IF Gt(costToBuy, Zero)
                       THEN Mul(Div(totalProfit, costToBuy), Num(100))
                       ELSE Zero
    IN  IF Leq(investorROI, OrZero(p, "roiTier2"))
        THEN Div(OrZero(p, "roiPct2"), Num(100))
        ELSE IF Leq(investorROI, OrZero(p, "roiTier1"))
        THEN Div(OrZero(p, "roiPct1"), Num(100))
        ELSE Div(OrZero(p, "roiPct3"), Num(100))

\* ROI tiers on the ROI of the whole profit against costToBuy.
RoiPct(p, totalProfit, costToBuy) ==
    LET investorROI == IF Gt(costToBuy, Zero)
                       THEN Mul(Div(totalProfit, costToBuy), Num(100))
                       ELSE Zero
    IN  IF Leq(investorROI, OrZero(p, "roiTier1"))
        THEN Div(OrZero(p, "roiPct1"), Num(100))
        ELSE IF Leq(investorROI, OrZero(p, "roiTier2"))
        THEN Div(OrZero(p, "roiPct2"), Num(100))
        ELSE Div(OrZero(p, "roiPct3"), Num(100))

\* The chain without its first branch (totalProfit <= 0).
JusurPctNoLossGuard(model, p, totalProfit, costToBuy) ==
    IF model = "SLIDING" THEN SlidingPct(totalProfit)
    ELSE IF model = "PROGRESSIVE" THEN ProgressivePct(totalProfit)
    ELSE IF model = "FLAT" THEN FlatPct(p)
    ELSE IF model = "ROI" THEN RoiPct(p, totalProfit, costToBuy)
    ELSE Zero

\* The if/else chain that selects the share of the chosen model.
JusurPct(model, p, totalProfit, costToBuy) ==
    IF Leq(totalProfit, Zero) THEN Zero
    ELSE IF model = "SLIDING" THEN SlidingPct(totalProfit)
    ELSE IF model = "PROGRESSIVE" THEN ProgressivePct(totalProfit)
    ELSE IF model = "FLAT" THEN FlatPct(p)
    ELSE IF model = "ROI" THEN RoiPct(p, totalProfit, costToBuy)
    ELSE Zero

\* amount * pct / 100.  The arithmetic is exact, so the product is formed as
\* amount * (pct / 100), which keeps the intermediate value small.
PctOf(amount, pct) == Mul(amount, Div(pct, Num(100)))

\* buyPrice * buyCommPct / 100
BuyCommAmount(p) ==
    PctOf(OrZero(p, "buyPrice"), OrZero(p, "buyCommPct"))

\* The cost without the buy-side commission.
CostToBuyNoCommission(p) == OrZero(p, "buyPrice")

\* buyPrice + buyCommAmount
CostToBuy(p) == Add(OrZero(p, "buyPrice"), BuyCommAmount(p))

\* sellPrice * sellCommPct / 100
SellCommAmount(p) ==
    PctOf(OrZero(p, "sellPrice"), OrZero(p, "sellCommPct"))

\* The agent commission: a percentage of the sale price, or a fixed amount.
AgentCommAmount(p) ==
    IF Truthy(p, "useAgentPct")
    THEN PctOf(OrZero(p, "sellPrice"), OrZero(p, "agentCommPct"))
    ELSE OrZero(p, "agentCommAmount")

\* The real estate transactions tax, when it is switched on.
RetTaxAmount(p) ==
    IF Truthy(p, "useRetTax")
    THEN PctOf(OrZero(p, "sellPrice"), OrZero(p, "retTaxPct"))
    ELSE Zero

\* The net revenue of the component's earlier revision: no tax, no other
\* expenses.
NetSaleRevenueNoTaxNoExpenses(p) ==
    Sub(Sub(OrZero(p, "sellPrice"), SellCommAmount(p)), AgentCommAmount(p))

\* sellPrice - sellCommAmount - agentCommAmount - retTaxAmount - otherExpenses
NetSaleRevenue(p) ==
    Sub(Sub(Sub(Sub(OrZero(p, "sellPrice"), SellCommAmount(p)),
                AgentCommAmount(p)), RetTaxAmount(p)),
        OrZero(p, "otherExpenses"))

\* computeResults without the two floors at 0 (Math.max(0, .)) on the cut and
\* on the investor's profit.
computeResultsUnclamped(model, p) ==
    LET buyCommAmount == BuyCommAmount(p)
        costToBuy == CostToBuy(p)
        sellCommAmount == SellCommAmount(p)
        agentCommAmount == AgentCommAmount(p)
        retTaxAmount == RetTaxAmount(p)
        otherExpenses == OrZero(p, "otherExpenses")
        netSaleRevenue == NetSaleRevenue(p)
        totalProfit == Sub(netSaleRevenue, costToBuy)
        jusurPct == JusurPct(model, p, totalProfit, costToBuy)
        jusurProfitCut == Mul(totalProfit, jusurPct)
        investorProfit == Sub(totalProfit, jusurProfitCut)
        investorFinalReturn == Add(costToBuy, investorProfit)
        jusurTotalRevenue == Add(buyCommAmount, jusurProfitCut)
        yourShare == Div(jusurTotalRevenue, Num(2))
        partnerShare == Div(jusurTotalRevenue, Num(2))
        investorROI == IF Gt(costToBuy, Zero)
                       THEN Mul(Div(investorProfit, costToBuy), Num(100))
                       ELSE Zero
        investorProfitPercent ==
            IF Gt(totalProfit, Zero)
            THEN Mul(Div(investorProfit, totalProfit), Num(100))
            ELSE Zero
    IN  [buyPrice |-> Echo(p, "buyPrice"),
         sellPrice |-> Echo(p, "sellPrice"),
         buyCommPct |-> Echo(p, "buyCommPct"),
         sellCommPct |-> Echo(p, "sellCommPct"),
         buyCommAmount |-> buyCommAmount,
         costToBuy |-> costToBuy,
         sellCommAmount |-> sellCommAmount,
         agentCommAmount |-> agentCommAmount,
         retTaxAmount |-> retTaxAmount,
         otherExpenses |-> otherExpenses,
         netSaleRevenue |-> netSaleRevenue,
         totalProfit |-> totalProfit,
         jusurPct |-> jusurPct,
         jusurProfitCut |-> jusurProfitCut,
         investorProfit |-> investorProfit,
         investorFinalReturn |-> investorFinalReturn,
         jusurTotalRevenue |-> jusurTotalRevenue,
         yourShare |-> yourShare,
         partnerShare |-> partnerShare,
         investorROI |-> investorROI,
         investorProfitPercent |-> investorProfitPercent]

computeResults(model, p) ==
    LET buyCommAmount == BuyCommAmount(p)
        costToBuy == CostToBuy(p)
        sellCommAmount == SellCommAmount(p)
        agentCommAmount == AgentCommAmount(p)
        retTaxAmount == RetTaxAmount(p)
        otherExpenses == OrZero(p, "otherExpenses")
        netSaleRevenue == NetSaleRevenue(p)
        totalProfit == Sub(netSaleRevenue, costToBuy)
        jusurPct == JusurPct(model, p, totalProfit, costToBuy)
        jusurProfitCut == Max(Zero, Mul(totalProfit, jusurPct))
        investorProfit == Max(Zero, Sub(totalProfit, jusurProfitCut))
        investorFinalReturn == Add(costToBuy, investorProfit)
        jusurTotalRevenue == Add(buyCommAmount, jusurProfitCut)
        yourShare == Div(jusurTotalRevenue, Num(2))
        partnerShare == Div(jusurTotalRevenue, Num(2))
        investorROI == IF Gt(costToBuy, Zero)
                       THEN Mul(Div(investorProfit, costToBuy), Num(100))
                       ELSE Zero
        investorProfitPercent ==
            IF Gt(totalProfit, Zero)
            THEN Mul(Div(investorProfit, totalProfit), Num(100))
            ELSE Zero
    IN  [buyPrice |-> Echo(p, "buyPrice"),
         sellPrice |-> Echo(p, "sellPrice"),
         buyCommPct |-> Echo(p, "buyCommPct"),
         sellCommPct |-> Echo(p, "sellCommPct"),
         buyCommAmount |-> buyCommAmount,
         costToBuy |-> costToBuy,
         sellCommAmount |-> sellCommAmount,
         agentCommAmount |-> agentCommAmount,
         retTaxAmount |-> retTaxAmount,
         otherExpenses |-> otherExpenses,
         netSaleRevenue |-> netSaleRevenue,
         totalProfit |-> totalProfit,
         jusurPct |-> jusurPct,
         jusurProfitCut |-> jusurProfitCut,
         investorProfit |-> investorProfit,
         investorFinalReturn |-> investorFinalReturn,
         jusurTotalRevenue |-> jusurTotalRevenue,
         yourShare |-> yourShare,
         partnerShare |-> partnerShare,
         investorROI |-> investorROI,
         investorProfitPercent |-> investorProfitPercent]

(* --------------------- breakEvenPrice, sensitivityData ----------------- *)

\* 1 - sellCommRate - agentCommRate - retTaxRate
RateDenominator(inputs) ==
    LET sellCommRate == Div(OrZero(inputs, "sellCommPct"), Num(100))
        agentCommRate == IF Truthy(inputs, "useAgentPct")
                         THEN Div(OrZero(inputs, "agentCommPct"), Num(100))
                         ELSE Zero
        retTaxRate == IF Truthy(inputs, "useRetTax")
                      THEN Div(OrZero(inputs, "retTaxPct"), Num(100))
                      ELSE Zero
    IN  Sub(Sub(Sub(Num(1), sellCommRate), agentCommRate), retTaxRate)

\* The inversion without the flat deductions.
SolveSellPriceNoFlat(inputs, requiredNetRevenue) ==
    Div(requiredNetRevenue, RateDenominator(inputs))

\* The sale price whose net revenue is requiredNetRevenue, before any clamp.
SolveSellPrice(inputs, requiredNetRevenue) ==
    LET fixedAgentComm == IF Truthy(inputs, "useAgentPct")
                          THEN Zero
                          ELSE OrZero(inputs, "agentCommAmount")
        otherExpenses == OrZero(inputs, "otherExpenses")
    IN  Div(Add(Add(requiredNetRevenue, fixedAgentComm), otherExpenses),
            RateDenominator(inputs))

\* The solver without the floor at 0.
breakEvenPriceUnclamped(inputs) ==
    LET targetROI == Div(ToNumber(inputs, "targetROI"), Num(100))
        costToBuy == CostToBuy(inputs)
        requiredNetRevenue == Add(costToBuy, Mul(costToBuy, targetROI))
    IN  SolveSellPrice(inputs, requiredNetRevenue)

\* A solver for the investor's return after the Flat split: the target profit
\* is grossed up by the share that Flat takes.
breakEvenPriceAfterFlatCut(inputs) ==
    LET targetROI == Div(ToNumber(inputs, "targetROI"), Num(100))
        costToBuy == CostToBuy(inputs)
        targetProfit == Div(Mul(costToBuy, targetROI),
                            Sub(Num(1), FlatPct(inputs)))
        requiredNetRevenue == Add(costToBuy, targetProfit)
    IN  Max(Zero, SolveSellPrice(inputs, requiredNetRevenue))

\* A solver that reads targetROI as a yearly rate over the holding period.
breakEvenPriceAnnualised(inputs) ==
    LET targetROI == Mul(Div(ToNumber(inputs, "targetROI"), Num(100)),
                         Div(OrZero(inputs, "holdingMonths"), Num(12)))
        costToBuy == CostToBuy(inputs)
        requiredNetRevenue == Add(costToBuy, Mul(costToBuy, targetROI))
    IN  Max(Zero, SolveSellPrice(inputs, requiredNetRevenue))

breakEvenPrice(inputs) ==
    LET targetROI == Div(ToNumber(inputs, "targetROI"), Num(100))
        costToBuy == CostToBuy(inputs)
        targetProfit == Mul(costToBuy, targetROI)
        requiredNetRevenue == Add(costToBuy, targetProfit)
        breakEven == SolveSellPrice(inputs, requiredNetRevenue)
    IN  Max(Zero, breakEven)

\* One point of the sweep, for the multiplier i (in percent).
SensitivityPoint(inputs, baseProfit, i) ==
    LET profitMultiplier == Div(Num(i), Num(100))
        adjustedProfit == Mul(baseProfit, profitMultiplier)
        requiredNetRevenue == Add(CostToBuy(inputs), adjustedProfit)
        adjustedSellPrice == SolveSellPrice(inputs, requiredNetRevenue)
        testInputs == [k \in DOMAIN inputs \cup {"sellPrice"} |->
                          IF k = "sellPrice" THEN adjustedSellPrice
                          ELSE inputs[k]]
        slidingResults == computeResults("SLIDING", testInputs)
        progressiveResults == computeResults("PROGRESSIVE", testInputs)
        flatResults == computeResults("FLAT", testInputs)
        roiResults == computeResults("ROI", testInputs)
    IN  [profitMultiplier |-> i,
         sellPrice |-> adjustedSellPrice,
         totalProfit |-> adjustedProfit,
         slidingJusur |-> slidingResults.jusurProfitCut,
         slidingInvestor |-> slidingResults.investorProfit,
         progressiveJusur |-> progressiveResults.jusurProfitCut,
         progressiveInvestor |-> progressiveResults.investorProfit,
         flatJusur |-> flatResults.jusurProfitCut,
         flatInvestor |-> flatResults.investorProfit,
         roiJusur |-> roiResults.jusurProfitCut,
         roiInvestor |-> roiResults.investorProfit]

\* The sweep guarded by totalProfit < 0 instead of <= 0.
sensitivityDataStrictGuard(inputs, results) ==
    IF Lt(results.totalProfit, Zero)
    THEN << >>
    ELSE [j \in 1..11 |->
             SensitivityPoint(inputs, results.totalProfit, 50 + 10 * (j - 1))]

\* The sweep without its guard on totalProfit.
sensitivityDataUnguarded(inputs, results) ==
    [j \in 1..11 |->
        SensitivityPoint(inputs, results.totalProfit, 50 + 10 * (j - 1))]

\* for (i = 50; i <= 150; i += 10)
sensitivityData(inputs, results) ==
    IF Leq(results.totalProfit, Zero)
    THEN << >>
    ELSE [j \in 1..11 |->
             SensitivityPoint(inputs, results.totalProfit, 50 + 10 * (j - 1))]

(* ----------------------- typed values and parsing ---------------------- *)

\* What is typed into a field is modelled by the number parseFloat reads from
\* it: a finite number, or NaN for an empty or unparseable text.

\* parseFloat(rawValue) || 0
parseFloatOrZero(rawValue) == IF Falsy(rawValue) THEN Zero ELSE rawValue

\* value.replace(/[^\d]/g, ''), for a text that holds an integer or nothing:
\* the sign is removed with every other non-digit.
formatNumberInput(rawValue) ==
    IF IsFinite(rawValue) THEN Num(Abs(rawValue.n)) ELSE NaN

\* parseFloat(value.replace(/,/g, '')) || 0
parseNumberInput(formattedValue) == parseFloatOrZero(formattedValue)

\* The fields whose text is reformatted with thousands separators.
PriceKeys == {"buyPrice", "sellPrice", "agentCommAmount"}

\* { ...s, [key]: v }
Assign(s, key, v) ==
    [k \in DOMAIN s \cup {key} |-> IF k = key THEN v ELSE s[k]]

(* ------------------------------- bounds -------------------------------- *)

\* Purchase prices typed: multiples of one million up to this many millions.
MaxBuyMillions == 1

\* Sale prices typed: multiples of 1,500,000 up to this many steps.
MaxSellSteps == 2

\* The texts typed into each field under Spec (NaN: an empty field).
DealTyped ==
    [buyPrice |-> {NaN, Num(5600000)}
                  \cup {Num(1000000 * k) : k \in 1..MaxBuyMillions},
     sellPrice |-> {NaN, Num(7200000)}
                   \cup {Num(1500000 * k) : k \in 1..MaxSellSteps},
     buyCommPct |-> {NaN, Num(1)},
     sellCommPct |-> {NaN, Rat(3, 2), Num(50)},
     agentCommPct |-> {NaN, Num(50)},
     agentCommAmount |-> {NaN, Num(50000)},
     otherExpenses |-> {NaN, Num(10000)},
     targetROI |-> {NaN, Num(10), Num(-20)}]

(* ---------------------------- the component ---------------------------- *)

VARIABLES
    model,          \* useState("SLIDING")
    inputs,         \* useState(defaultInputs)
    savedDeals,     \* useState<SavedDeal[]>([])
    dealName,       \* useState("")
    savedProfiles,  \* useState<SavedProfile[]>([])
    localStorage,   \* what is stored under the two keys of the page
    queued,         \* state updates scheduled for the next render
    pendingEffects, \* effects of the last render that have not run yet
    caches,         \* the service worker's cache named CACHE_NAME
    fetches         \* the fetch events the service worker has been given

\* What belongs to the page besides the deal on the form.
page == <<dealName, savedProfiles, localStorage, queued, pendingEffects>>

\* What belongs to the service worker.
worker == <<caches, fetches>>

vars == <<model, inputs, savedDeals, page, worker>>

\* The memoised values are functions of the state they depend on.

\* useMemo(() => computeResults(model, inputs), [model, inputs])
results == computeResults(model, inputs)

\* useMemo(() => ..., [inputs]): the value of breakEvenPrice
breakEven == breakEvenPrice(inputs)

\* useMemo(() => ..., [inputs, results]): the value of sensitivityData
sensitivity == sensitivityData(inputs, results)

\* No value under a key, no response in the cache, no update scheduled.
None == [none |-> TRUE]

\* JSON has no NaN, Infinity or undefined: JSON.stringify writes a number that
\* is not finite as null and leaves out a property whose value is undefined.
Null == [null |-> TRUE]

\* The properties of the inputs that hold a boolean.
BooleanKeys == {"useAgentPct", "useRetTax"}

\* JSON.parse(JSON.stringify(o)) of an object of numbers and booleans (the
\* inputs or the results of a deal).
JSONObject(o) ==
    [k \in {key \in DOMAIN o :
               \/ key \in BooleanKeys
               \/ o[key] # Undefined} |->
        IF k \in BooleanKeys THEN o[k]
        ELSE IF IsFinite(o[k]) THEN o[k] ELSE Null]

\* JSON.parse(JSON.stringify(entry)) of a saved deal or profile: strings are
\* kept, the inputs and the results are objects of numbers.
JSONEntry(entry) ==
    [k \in DOMAIN entry |->
        IF k \in {"inputs", "results"} THEN JSONObject(entry[k])
        ELSE entry[k]]

\* JSON.stringify(list): the text is represented by the value it parses to.
JSONstringify(list) == [json |-> [i \in 1..Len(list) |-> JSONEntry(list[i])]]

\* JSON.parse(text)
JSONparse(text) == text.json

\* The page once it is mounted: every effect has run and what is stored is
\* what the state holds.
Mounted ==
    /\ dealName = << >>
    /\ savedProfiles = << >>
    /\ localStorage = [jusur_saved_deals |-> JSONstringify(savedDeals),
                       jusur_saved_profiles |-> JSONstringify(savedProfiles)]
    /\ queued = [savedDeals |-> None, savedProfiles |-> None]
    /\ pendingEffects = << >>

\* The service worker once installed: cacheAssets has stored the page, and no
\* request has been seen.
Installed ==
    /\ caches = [path \in {"/"} |-> [status |-> 200, body |-> 1]]
    /\ fetches = << >>

Init ==
    /\ model = "SLIDING"
    /\ inputs = defaultInputs
    /\ savedDeals = << >>
    /\ Mounted
    /\ Installed

setModel(m) ==
    /\ model' = m
    /\ UNCHANGED <<inputs, savedDeals, page, worker>>

onChangeNum(key, rawValue) ==
    /\ inputs' = Assign(inputs, key,
                        IF key \in PriceKeys
                        THEN parseNumberInput(formatNumberInput(rawValue))
                        ELSE parseFloatOrZero(rawValue))
    /\ UNCHANGED <<model, savedDeals, page, worker>>

onChangeAgentType(usePercent) ==
    /\ inputs' = Assign(inputs, "useAgentPct", usePercent)
    /\ UNCHANGED <<model, savedDeals, page, worker>>

\* onCheckedChange of the tax switch
onChangeRetTax(checked) ==
    /\ inputs' = Assign(inputs, "useRetTax", checked)
    /\ UNCHANGED <<model, savedDeals, page, worker>>

reset ==
    /\ inputs' = defaultInputs
    /\ UNCHANGED <<model, savedDeals, page, worker>>

Next ==
    \/ \E m \in Models : setModel(m)
    \/ \E key \in DOMAIN DealTyped : \E rawValue \in DealTyped[key] :
           onChangeNum(key, rawValue)
    \/ \E usePercent \in BOOLEAN : onChangeAgentType(usePercent)
    \/ \E checked \in BOOLEAN : onChangeRetTax(checked)
    \/ reset

Spec == Init /\ [][Next]_vars

(* ------------------ the model parameters (SpecModels) ------------------ *)

\* Sale prices typed under SpecModels: 1,000,000 plus multiples of 100,000 up
\* to this many steps, against a purchase price of 1,000,000 (an ROI of 10%
\* per step).
MaxRoiSteps == 3

\* The texts typed into each field under SpecModels.
ModelTyped ==
    [buyPrice |-> {NaN, Num(1000000)},
     sellPrice |-> {NaN} \cup {Num(1000000 + 100000 * k) : k \in 1..MaxRoiSteps},
     flatPct |-> {NaN, Num(30), Num(95), Num(-5)},
     roiTier1 |-> {NaN, Num(10), Num(20)},
     roiTier2 |-> {NaN, Num(10), Num(20)},
     roiPct1 |-> {NaN, Num(20), Num(150)},
     roiPct2 |-> {NaN, Num(30), Num(-10)},
     roiPct3 |-> {NaN, Num(40)}]

NextModels ==
    \/ \E m \in Models : setModel(m)
    \/ \E key \in DOMAIN ModelTyped : \E rawValue \in ModelTyped[key] :
           onChangeNum(key, rawValue)

SpecModels == Init /\ [][NextModels]_vars

(* ------------- deals saved with fewer fields (SpecLegacy) -------------- *)

\* loadDeal without setModel(deal.model).
loadDealInputsOnly(i) ==
    /\ i \in 1..Len(savedDeals)
    /\ inputs' = savedDeals[i].inputs
    /\ UNCHANGED <<model, savedDeals, page, worker>>

\* loadDeal(deal), for the deal shown at position i of the history.
loadDeal(i) ==
    /\ i \in 1..Len(savedDeals)
    /\ inputs' = savedDeals[i].inputs
    /\ model' = savedDeals[i].model
    /\ UNCHANGED <<savedDeals, page, worker>>

\* A persisted deal lacks at most this many of the fields of defaultInputs.
MaxAbsent == 2

\* The inputs of the persisted deals, before any field is left out.
LegacyBase ==
    [buyPrice |-> Num(1000000), sellPrice |-> Num(1500000),
     buyCommPct |-> Num(1), sellCommPct |-> Rat(3, 2),
     holdingMonths |-> Num(8), flatPct |-> Num(30),
     roiTier1 |-> Num(10), roiTier2 |-> Num(20), roiPct1 |-> Num(20),
     roiPct2 |-> Num(30), roiPct3 |-> Num(40), agentCommPct |-> Num(2),
     agentCommAmount |-> Num(50000), useAgentPct |-> TRUE,
     targetROI |-> Num(10), retTaxPct |-> Rat(5, 2), useRetTax |-> TRUE,
     otherExpenses |-> Num(10000)]

\* The object p without the properties K.
Without(p, K) == [k \in DOMAIN p \ K |-> p[k]]

\* What JSON.parse may return for jusur_saved_deals: one deal whose inputs
\* lack some fields; loadDeal reads only its inputs and model.
LegacyDeals ==
    {[name |-> "legacy", model |-> m, inputs |-> Without(LegacyBase, K)] :
        m \in {"SLIDING", "ROI"},
        K \in {S \in SUBSET DOMAIN LegacyBase : Cardinality(S) <= MaxAbsent}}

\* The component once the deals have been loaded from localStorage.
InitLegacy ==
    /\ model = "SLIDING"
    /\ inputs = defaultInputs
    /\ savedDeals \in {<<deal>> : deal \in LegacyDeals}
    /\ Mounted
    /\ Installed

NextLegacy ==
    \/ \E i \in 1..Len(savedDeals) : loadDeal(i)
    \/ \E m \in {"SLIDING", "ROI"} : setModel(m)
    \/ \E rawValue \in {NaN, Num(2000000)} : onChangeNum("sellPrice", rawValue)

SpecLegacy == InitLegacy /\ [][NextLegacy]_vars

(* ------------- deals whose sweep is looked at (SpecSweep) --------------- *)

\* The deals of the sensitivity chart: both agent modes, the tax switch, rates
\* that add up to 100% and more, and an otherExpenses below zero (the field
\* takes any number parseFloat reads).
SweepTyped ==
    [buyPrice |-> {NaN, Num(1000000)},
     sellPrice |-> {NaN} \cup {Num(1500000 * k) : k \in 1..MaxSellSteps},
     sellCommPct |-> {NaN, Num(50), Num(100)},
     agentCommPct |-> {NaN, Num(50)},
     agentCommAmount |-> {NaN, Num(50000)},
     otherExpenses |-> {NaN, Num(10000), Num(-2000000)},
     flatPct |-> {NaN, Num(30)}]

NextSweep ==
    \/ \E m \in {"SLIDING", "FLAT"} : setModel(m)
    \/ \E key \in DOMAIN SweepTyped : \E rawValue \in SweepTyped[key] :
           onChangeNum(key, rawValue)
    \/ \E usePercent \in BOOLEAN : onChangeAgentType(usePercent)
    \/ \E checked \in BOOLEAN : onChangeRetTax(checked)

SpecSweep == Init /\ [][NextSweep]_vars

(* ------------------- saving and loading deals (SpecDeals) --------------- *)

\* At most this many deals are saved.
MaxDeals == 2

\* Date.now() gives one of this many instants.
MaxNow == 2

\* String.prototype.trim on a name given as its sequence of characters.
RECURSIVE trimStart(_)
trimStart(s) ==
    IF s # << >> /\ Head(s) = " " THEN trimStart(Tail(s)) ELSE s

RECURSIVE trimEnd(_)
trimEnd(s) ==
    IF s # << >> /\ s[Len(s)] = " "
    THEN trimEnd(SubSeq(s, 1, Len(s) - 1))
    ELSE s

trim(s) == trimEnd(trimStart(s))

\* onChange of the deal name field
setDealName(value) ==
    /\ dealName' = value
    /\ UNCHANGED <<model, inputs, savedDeals, savedProfiles, localStorage,
                   queued, pendingEffects, worker>>

\* saveDeal, the render it causes and the effect on [savedDeals] that follows:
\* a blank name shows a toast and changes nothing.
saveDeal(now) ==
    IF trim(dealName) = << >>
    THEN UNCHANGED vars
    ELSE LET newDeal == [id |-> now, date |-> now, name |-> trim(dealName),
                         model |-> model, inputs |-> inputs,
                         results |-> results]
         IN  /\ Len(savedDeals) < MaxDeals
             /\ savedDeals' = <<newDeal>> \o savedDeals
             /\ dealName' = << >>
             /\ localStorage' =
                    [localStorage EXCEPT
                        !.jusur_saved_deals = JSONstringify(savedDeals')]
             /\ UNCHANGED <<model, inputs, savedProfiles, queued,
                            pendingEffects, worker>>

\* The names typed: empty, blank, and one with spaces around it.
DealNames == {<< >>, <<" ">>, <<" ", "A", " ">>}

NextDeals ==
    \/ \E m \in {"SLIDING", "PROGRESSIVE"} : setModel(m)
    \/ \E rawValue \in {NaN, Num(1500000)} : onChangeNum("sellPrice", rawValue)
    \/ \E value \in DealNames : setDealName(value)
    \/ \E now \in 1..MaxNow : saveDeal(now)
    \/ \E i \in 1..Len(savedDeals) : loadDeal(i)

SpecDeals == Init /\ [][NextDeals]_vars

(* ----------------------- mounting the page (SpecMount) ------------------ *)

\* The deals an earlier visit saved with saveDeal.
EarlierDeals ==
    {[id |-> now, date |-> now, name |-> <<"A">>, model |-> m,
      inputs |-> Assign(defaultInputs, "sellPrice", Num(1500000)),
      results |-> computeResults(m, Assign(defaultInputs, "sellPrice",
                                           Num(1500000)))] :
        now \in 1..MaxNow, m \in {"SLIDING", "PROGRESSIVE"}}

\* The profiles an earlier visit saved with saveProfile.
EarlierProfiles ==
    {[id |-> now, name |-> <<"A">>, inputs |-> defaultInputs,
      model |-> "SLIDING", createdAt |-> now] : now \in 1..MaxNow}

\* The lists of up to n entries of S.
ListsOf(S, n) == UNION {[1..k -> S] : k \in 0..n}

\* The effects of the component, in the order of their declaration: React
\* runs the effects of a commit in this order, and applies the state updates
\* they make in one render after the last of them.
Effects == <<"loadDeals", "loadProfiles", "saveDeals", "saveProfiles">>

\* The component after its first render, before any effect has run: the state
\* is useState's initial state, and localStorage holds what an earlier visit
\* left (nothing, or the text of a list).
InitMount ==
    /\ model = "SLIDING"
    /\ inputs = defaultInputs
    /\ savedDeals = << >>
    /\ savedProfiles = << >>
    /\ dealName = << >>
    /\ localStorage \in
           [jusur_saved_deals :
                {None} \cup {JSONstringify(list) :
                                list \in ListsOf(EarlierDeals, MaxDeals)},
            jusur_saved_profiles :
                {None} \cup {JSONstringify(list) :
                                list \in ListsOf(EarlierProfiles, 1)}]
    /\ queued = [savedDeals |-> None, savedProfiles |-> None]
    /\ pendingEffects = Effects
    /\ Installed

\* An effect is about to run.
Runs(effect) == pendingEffects # << >> /\ Head(pendingEffects) = effect

\* useEffect(() => { const saved = localStorage.getItem("jusur_saved_deals");
\* if (saved) setSavedDeals(JSON.parse(saved)) }, [])
loadDealsEffect ==
    /\ Runs("loadDeals")
    /\ LET saved == localStorage.jusur_saved_deals
       IN  queued' = IF saved # None
                     THEN [queued EXCEPT
                              !.savedDeals = [value |-> JSONparse(saved)]]
                     ELSE queued
    /\ pendingEffects' = Tail(pendingEffects)
    /\ UNCHANGED <<model, inputs, savedDeals, dealName, savedProfiles,
                   localStorage, worker>>

\* The same for "jusur_saved_profiles" and setSavedProfiles.
loadProfilesEffect ==
    /\ Runs("loadProfiles")
    /\ LET saved == localStorage.jusur_saved_profiles
       IN  queued' = IF saved # None
                     THEN [queued EXCEPT
                              !.savedProfiles = [value |-> JSONparse(saved)]]
                     ELSE queued
    /\ pendingEffects' = Tail(pendingEffects)
    /\ UNCHANGED <<model, inputs, savedDeals, dealName, savedProfiles,
                   localStorage, worker>>

\* useEffect(() => localStorage.setItem("jusur_saved_deals",
\* JSON.stringify(savedDeals)), [savedDeals]): savedDeals is the one of the
\* render the effect belongs to.
saveDealsEffect ==
    /\ Runs("saveDeals")
    /\ localStorage' = [localStorage EXCEPT
                           !.jusur_saved_deals = JSONstringify(savedDeals)]
    /\ pendingEffects' = Tail(pendingEffects)
    /\ UNCHANGED <<model, inputs, savedDeals, dealName, savedProfiles,
                   queued, worker>>

\* The same for "jusur_saved_profiles" and savedProfiles.
saveProfilesEffect ==
    /\ Runs("saveProfiles")
    /\ localStorage' = [localStorage EXCEPT
                           !.jusur_saved_profiles =
                               JSONstringify(savedProfiles)]
    /\ pendingEffects' = Tail(pendingEffects)
    /\ UNCHANGED <<model, inputs, savedDeals, dealName, savedProfiles,
                   queued, worker>>

\* The render after the effects: the queued updates become the state, and an
\* effect whose dependency is a new array runs again (the empty dependency
\* list of the load effects never does).
render ==
    /\ pendingEffects = << >>
    /\ queued # [savedDeals |-> None, savedProfiles |-> None]
    /\ savedDeals' = IF queued.savedDeals # None
                     THEN queued.savedDeals.value
                     ELSE savedDeals
    /\ savedProfiles' = IF queued.savedProfiles # None
                        THEN queued.savedProfiles.value
                        ELSE savedProfiles
    /\ pendingEffects' =
           (IF queued.savedDeals # None THEN <<"saveDeals">> ELSE << >>)
               \o (IF queued.savedProfiles # None
                   THEN <<"saveProfiles">>
                   ELSE << >>)
    /\ queued' = [savedDeals |-> None, savedProfiles |-> None]
    /\ UNCHANGED <<model, inputs, dealName, localStorage, worker>>

NextMount ==
    \/ loadDealsEffect
    \/ loadProfilesEffect
    \/ saveDealsEffect
    \/ saveProfilesEffect
    \/ render

SpecMount == InitMount /\ [][NextMount]_vars

(* ------------------- the service worker (SpecWorker) ------------------- *)

\* location.origin of the service worker.
Origin == "https://jusur.app"

\* At most this many fetch events are followed.
MaxFetches == 2

\* The network answers with one of this many versions of a resource.
MaxVersions == 2

\* event.request: GET requests for two paths of the page's origin and one of
\* another origin.
Requests ==
    [origin : {Origin}, path : {"/", "/favicon.ico"}]
        \cup [origin : {"https://fonts.example"}, path : {"/font.woff2"}]

\* What the network can answer.
NetworkResponses == [status : {200, 404}, body : 1..MaxVersions]

\* networkResponse && networkResponse.status === 200, without the test of the
\* status.
ShouldPutAnyStatus(networkResponse) == networkResponse # None

\* networkResponse && networkResponse.status === 200
ShouldPut(networkResponse) ==
    networkResponse # None /\ networkResponse.status = 200

\* The promise of the network's answer.
networkFetch == [promise |-> "fetch(event.request)"]

\* What a rejected fetch gives.
TypeError == [error |-> "TypeError"]

\* cachedResponse || networkFetch: what respondWith is given once match has
\* resolved.
RespondWith(cachedResponse) ==
    IF cachedResponse # None THEN cachedResponse ELSE networkFetch

\* caches.match(event.request)
Match(request) ==
    IF request.path \in DOMAIN caches THEN caches[request.path] ELSE None

\* cache.put(event.request, networkResponse.clone())
Put(request, response) ==
    [path \in DOMAIN caches \cup {request.path} |->
        IF path = request.path THEN response ELSE caches[path]]

\* The listener is given a fetch event.  A request of another origin is left
\* to the browser: respondWith is not called.
onFetch(request) ==
    /\ Len(fetches) < MaxFetches
    /\ fetches' = Append(fetches,
           IF request.origin = Origin
           THEN [request |-> request, intercepted |-> TRUE, at |-> "match",
                 cachedResponse |-> None, fetchStarted |-> FALSE,
                 networkResponse |-> None, response |-> None]
           ELSE [request |-> request, intercepted |-> FALSE, at |-> "done",
                 cachedResponse |-> None, fetchStarted |-> FALSE,
                 networkResponse |-> None, response |-> None])
    /\ UNCHANGED <<model, inputs, savedDeals, page, caches>>

\* caches.match resolves: the network fetch is started, and the event is
\* answered with the cached response if there is one.
onMatch(e) ==
    /\ e \in 1..Len(fetches)
    /\ fetches[e].at = "match"
    /\ LET cachedResponse == Match(fetches[e].request)
           answer == RespondWith(cachedResponse)
       IN  fetches' = [fetches EXCEPT
               ![e].cachedResponse = cachedResponse,
               ![e].fetchStarted = TRUE,
               ![e].response = IF answer = networkFetch THEN None
                               ELSE answer,
               ![e].at = "fetch"]
    /\ UNCHANGED <<model, inputs, savedDeals, page, caches>>

\* The network answers: the response is put into the cache when its status
\* allows (the put is a later step), and it answers the event if nothing has.
onNetworkResponse(e, networkResponse) ==
    /\ e \in 1..Len(fetches)
    /\ fetches[e].at = "fetch"
    /\ fetches' = [fetches EXCEPT
           ![e].networkResponse = networkResponse,
           ![e].response = IF @ = None THEN networkResponse ELSE @,
           ![e].at = IF ShouldPut(networkResponse) THEN "put" ELSE "done"]
    /\ UNCHANGED <<model, inputs, savedDeals, page, caches>>

\* The network fails: fetch rejects, and so does respondWith if the event was
\* waiting for it.
onNetworkError(e) ==
    /\ e \in 1..Len(fetches)
    /\ fetches[e].at = "fetch"
    /\ fetches' = [fetches EXCEPT
           ![e].networkResponse = TypeError,
           ![e].response = IF @ = None THEN TypeError ELSE @,
           ![e].at = "done"]
    /\ UNCHANGED <<model, inputs, savedDeals, page, caches>>

\* caches.open(CACHE_NAME).then(cache => cache.put(...))
onPut(e) ==
    /\ e \in 1..Len(fetches)
    /\ fetches[e].at = "put"
    /\ caches' = Put(fetches[e].request, fetches[e].networkResponse)
    /\ fetches' = [fetches EXCEPT ![e].at = "done"]
    /\ UNCHANGED <<model, inputs, savedDeals, page>>

NextWorker ==
    \/ \E request \in Requests : onFetch(request)
    \/ \E e \in 1..MaxFetches : onMatch(e)
    \/ \E e \in 1..MaxFetches : \E networkResponse \in NetworkResponses :
           onNetworkResponse(e, networkResponse)
    \/ \E e \in 1..MaxFetches : onNetworkError(e)
    \/ \E e \in 1..MaxFetches : onPut(e)

SpecWorker == Init /\ [][NextWorker]_vars

(* ------------------------------- claims -------------------------------- *)

\* |a - b| <= tol
Within(a, b, tol) == Leq(Sub(a, b), tol) /\ Leq(Sub(b, a), tol)

\* derive on the current inputs with sellPrice replaced by the break-even price.
RoundTrip == computeResults(model, Assign(inputs, "sellPrice", breakEven))

\* The solver's price before Math.max(0, .).
RawBreakEven ==
    SolveSellPrice(inputs,
                   Add(CostToBuy(inputs),
                       Mul(CostToBuy(inputs),
                           Div(ToNumber(inputs, "targetROI"), Num(100)))))

\* The rates sum to less than 100% and there is a cost to recover.
Solvable == Gt(CostToBuy(inputs), Zero) /\ Gt(RateDenominator(inputs), Zero)

\* C1 as stated: at the break-even price, derive reports an investorROI equal
\* to targetROIPct, for every model.
C1_RoundTripInvestorROI ==
    Solvable => RoundTrip.investorROI = inputs.targetROI

\* C1 as amended: at the break-even price (when it was not clamped at 0) the
\* profit before the cut is costToBuy * targetROIPct / 100, for every model;
\* the reported investorROI is what is left after the cut: for a target >= 0
\* it is at most the target, and it equals the target only when the cut is 0.
C1_RoundTripProfit ==
    (Solvable /\ Geq(RawBreakEven, Zero)) =>
        /\ Mul(Div(RoundTrip.totalProfit, CostToBuy(inputs)), Num(100))
               = inputs.targetROI
        /\ Geq(inputs.targetROI, Zero) =>
               /\ Leq(RoundTrip.investorROI, inputs.targetROI)
               /\ (RoundTrip.investorROI = inputs.targetROI)
                      <=> (RoundTrip.jusurProfitCut = Zero)

C1_Witness ==
    /\ Solvable
    /\ model = "SLIDING"
    /\ inputs.targetROI = Num(10)
    /\ CostToBuy(inputs) = Num(1000000)
    /\ ~Truthy(inputs, "useAgentPct")
    /\ inputs.agentCommAmount = Num(50000)
    /\ inputs.otherExpenses = Num(10000)
    /\ inputs.sellCommPct = Rat(3, 2)
    /\ Gt(breakEven, Zero)
    /\ RoundTrip.totalProfit = Num(100000)
    /\ RoundTrip.investorROI = Rat(63, 8)

\* C2 as stated: the share percentage lies in [0, 1] for every model and all
\* inputs.
C2_SharePctInUnitInterval ==
    Geq(results.jusurPct, Zero) /\ Leq(results.jusurPct, Num(1))

\* C3: when totalProfit <= 0 the share and the cut are 0, the investor's
\* profit is not positive and investorROI <= 0, under every model.
C3_NoProfitNoCut ==
    Leq(results.totalProfit, Zero) =>
        /\ results.jusurPct = Zero
        /\ results.jusurProfitCut = Zero
        /\ Leq(results.investorProfit, Zero)
        /\ Leq(results.investorROI, Zero)

C3_Witness ==
    /\ Lt(results.totalProfit, Zero)
    /\ Gt(results.costToBuy, Zero)
    /\ model = "FLAT"
    /\ inputs.flatPct = Num(30)

\* The inputs of the end-to-end example: 5,600,000 bought at 1.0%, 7,200,000
\* sold at 1.5%, no agent commission, no tax, no other expenses.
IsExample ==
    /\ inputs.buyPrice = Num(5600000)
    /\ inputs.buyCommPct = Num(1)
    /\ inputs.sellPrice = Num(7200000)
    /\ inputs.sellCommPct = Rat(3, 2)
    /\ IF inputs.useAgentPct
       THEN inputs.agentCommPct = Zero
       ELSE inputs.agentCommAmount = Zero
    /\ ~inputs.useRetTax
    /\ inputs.otherExpenses = Zero

\* C4 as stated: on the example under Sliding, sharePct = 0.3795, profitCut
\* is 545,262 and investorProfit 890,738 to the unit, investorROI 15.74% to
\* two decimals.
C4_ExampleSlidingAsStated ==
    (IsExample /\ model = "SLIDING") =>
        /\ results.jusurPct = Rat(3795, 10000)
        /\ Within(results.jusurProfitCut, Num(545262), Num(1))
        /\ Within(results.investorProfit, Num(890738), Num(1))
        /\ Within(results.investorROI, Rat(1574, 100), Rat(5, 1000))

\* C4 as amended: on the example under Sliding, sharePct = 0.3795, profitCut
\* = 1,436,000 * 0.3795 = 544,962, investorProfit = 891,038 and investorROI
\* is 15.75% to two decimals.
C4_ExampleSliding ==
    (IsExample /\ model = "SLIDING") =>
        /\ results.jusurPct = Rat(3795, 10000)
        /\ results.jusurProfitCut = Num(544962)
        /\ results.investorProfit = Num(891038)
        /\ Within(results.investorROI, Rat(1575, 100), Rat(5, 1000))

C4_Witness == IsExample /\ model = "SLIDING" /\ Gt(results.jusurProfitCut, Zero)

\* C5: on the example, buyCommAmount = 56,000, costToBuy = 5,656,000,
\* sellCommAmount = 108,000, netSaleRevenue = 7,092,000 and totalProfit =
\* 1,436,000, whatever the model.
C5_ExampleDerivation ==
    IsExample =>
        /\ results.buyCommAmount = Num(56000)
        /\ results.costToBuy = Num(5656000)
        /\ results.sellCommAmount = Num(108000)
        /\ results.netSaleRevenue = Num(7092000)
        /\ results.totalProfit = Num(1436000)

C5_Witness == IsExample /\ model = "ROI" /\ results.totalProfit = Num(1436000)

\* C6 as stated: when the rates sum to 100% or more (the solver's denominator
\* is <= 0) the break-even price is not a finite number.
C6_NoBreakEvenIsNonFinite ==
    Leq(RateDenominator(inputs), Zero) => ~IsFinite(breakEven)

\* The fields of defaultInputs that hold numbers.
NumericKeys == DOMAIN defaultInputs \ {"useAgentPct", "useRetTax"}

\* The computed fields of a result (all but the four echoed inputs).
Computed(r) ==
    [k \in DOMAIN r \ {"buyPrice", "sellPrice", "buyCommPct", "sellCommPct"}
        |-> r[k]]

\* C7 as stated: a numeric input that is not supplied behaves as 0 in derive,
\* in the break-even solver and in the sensitivity sampler, and none of them
\* returns a non-finite value because of it.
C7_AbsentNumericIsZero ==
    \A k \in NumericKeys \ DOMAIN inputs :
        LET filled == Assign(inputs, k, Zero)
        IN  /\ Computed(results) = Computed(computeResults(model, filled))
            /\ breakEven = breakEvenPrice(filled)
            /\ IsFinite(breakEven)
            /\ sensitivity
                   = sensitivityData(filled, computeResults(model, filled))

\* C8 as stated: an absent agent-commission mode means Percentage, in derive
\* and in the break-even solver, and an absent useTransactionTax means no tax.
C8_AbsentModeIsPercentage ==
    /\ ~Has(inputs, "useAgentPct") =>
           /\ results.agentCommAmount
                  = PctOf(OrZero(inputs, "sellPrice"),
                          OrZero(inputs, "agentCommPct"))
           /\ breakEven = breakEvenPrice(Assign(inputs, "useAgentPct", TRUE))
    /\ ~Has(inputs, "useRetTax") => results.retTaxAmount = Zero

\* The ROI of the whole profit against the cost, 0 when there is no cost.
RoiBeforeCut ==
    IF Gt(results.costToBuy, Zero)
    THEN Mul(Div(results.totalProfit, results.costToBuy), Num(100))
    ELSE Zero

\* C9: under RoiTiered with totalProfit > 0 the share is roiSharePct1/100 up
\* to and including roiTier1Pct, else roiSharePct2/100 up to and including
\* roiTier2Pct, else roiSharePct3/100.
C9_RoiTierSelection ==
    (model = "ROI" /\ Gt(results.totalProfit, Zero)) =>
        /\ Leq(RoiBeforeCut, inputs.roiTier1) =>
               results.jusurPct = Div(inputs.roiPct1, Num(100))
        /\ (Gt(RoiBeforeCut, inputs.roiTier1)
            /\ Leq(RoiBeforeCut, inputs.roiTier2)) =>
               results.jusurPct = Div(inputs.roiPct2, Num(100))
        /\ (Gt(RoiBeforeCut, inputs.roiTier1)
            /\ Gt(RoiBeforeCut, inputs.roiTier2)) =>
               results.jusurPct = Div(inputs.roiPct3, Num(100))

C9_Witness ==
    /\ model = "ROI"
    /\ Gt(results.totalProfit, Zero)
    /\ RoiBeforeCut = Num(10)
    /\ inputs.roiTier1 = Num(10)
    /\ inputs.roiTier2 = Num(20)
    /\ inputs.roiPct1 = Num(20)
    /\ inputs.roiPct2 = Num(30)
    /\ results.jusurPct = Rat(1, 5)

\* derive under Sliding at another typed sale price, all else equal.
SlidingAt(rawValue) ==
    computeResults("SLIDING",
                   Assign(inputs, "sellPrice",
                          parseNumberInput(formatNumberInput(rawValue))))

\* C10: under Sliding with totalProfit > 0 the share is 0.20 + totalProfit /
\* 8,000,000 below 2,000,000 of profit (so it tends to 0.20 at 0+) and exactly
\* 0.45 from 2,000,000 on; it lies in [0.20, 0.45]; and it does not decrease
\* when the profit grows with the sale price.
C10_SlidingShare ==
    (model = "SLIDING" /\ Gt(results.totalProfit, Zero)) =>
        /\ Lt(results.totalProfit, Num(2000000)) =>
               results.jusurPct
                   = Add(Rat(1, 5), Div(results.totalProfit, Num(8000000)))
        /\ Geq(results.totalProfit, Num(2000000)) =>
               results.jusurPct = Rat(45, 100)
        /\ Geq(results.jusurPct, Rat(20, 100))
        /\ Leq(results.jusurPct, Rat(45, 100))
        /\ \A rawValue \in DealTyped.sellPrice :
               Geq(SlidingAt(rawValue).totalProfit, results.totalProfit) =>
                   Geq(SlidingAt(rawValue).jusurPct, results.jusurPct)

C10_Witness ==
    /\ model = "SLIDING"
    /\ results.totalProfit = Num(2000000)
    /\ results.jusurPct = Rat(45, 100)
    /\ \E rawValue \in DealTyped.sellPrice :
           /\ Gt(SlidingAt(rawValue).totalProfit, Zero)
           /\ Lt(SlidingAt(rawValue).jusurPct, results.jusurPct)

\* The Progressive cut written bracket by bracket: 25% of the part of the
\* profit up to 500,000, 35% of the part between 500,000 and 1,000,000, 45% of
\* the part above 1,000,000.
BracketCut(totalProfit) ==
    IF Leq(totalProfit, Num(500000))
    THEN Mul(totalProfit, Rat(25, 100))
    ELSE IF Leq(totalProfit, Num(1000000))
    THEN Add(Num(125000), Mul(Sub(totalProfit, Num(500000)), Rat(35, 100)))
    ELSE Add(Num(300000), Mul(Sub(totalProfit, Num(1000000)), Rat(45, 100)))

\* C11 as stated: whenever the profit is positive, the Progressive cut is 25%
\* of the first 500,000 plus 35% of the next 500,000 plus 45% of what is above
\* 1,000,000, the share is that cut divided by the profit, and a profit of
\* 1,500,000 gives a cut of 625,000 and a share of 5/12 (0.41667).
C11_ProgressiveAsStated ==
    (model = "PROGRESSIVE" /\ Gt(results.totalProfit, Zero)) =>
        /\ results.jusurProfitCut = BracketCut(results.totalProfit)
        /\ results.jusurPct =
               Div(BracketCut(results.totalProfit), results.totalProfit)
        /\ (results.totalProfit = Num(1500000) =>
               /\ results.jusurProfitCut = Num(625000)
               /\ results.jusurPct = Rat(5, 12))

\* C11 -- Progressive: whenever the profit is positive, the cut is 25% of the
\* first 500,000 plus 35% of the next 500,000 plus 45% of what is above
\* 1,000,000, and the share is that cut divided by the profit; a profit of
\* 1,500,000 gives a cut of 125,000 + 175,000 + 225,000 = 525,000 and a share
\* of 0.35.
C11_ProgressiveBrackets ==
    (model = "PROGRESSIVE" /\ Gt(results.totalProfit, Zero)) =>
        /\ results.jusurProfitCut = BracketCut(results.totalProfit)
        /\ results.jusurPct =
               Div(BracketCut(results.totalProfit), results.totalProfit)
        /\ (results.totalProfit = Num(1500000) =>
               /\ results.jusurProfitCut = Num(525000)
               /\ results.jusurPct = Rat(35, 100))

\* A profit of exactly 1,500,000 under Progressive, all three brackets used.
C11_Witness ==
    /\ model = "PROGRESSIVE"
    /\ results.totalProfit = Num(1500000)
    /\ results.jusurProfitCut = Num(525000)
    /\ results.investorProfit = Num(975000)

\* C12 -- Flat: whenever the profit is positive the share is flatPct / 100
\* clamped to [0, 0.9], for every flatPct, negative ones and ones above 90
\* included.
C12_FlatShare ==
    (model = "FLAT" /\ Gt(results.totalProfit, Zero)) =>
        LET flatPct == OrZero(inputs, "flatPct")
        IN  results.jusurPct =
                IF Lt(flatPct, Zero) THEN Zero
                ELSE IF Gt(flatPct, Num(90)) THEN Rat(9, 10)
                ELSE Div(flatPct, Num(100))

\* A profitable Flat deal with flatPct typed as 95: the share is held at 0.9.
C12_Witness ==
    /\ model = "FLAT"
    /\ Gt(results.totalProfit, Zero)
    /\ inputs.flatPct = Num(95)
    /\ results.jusurPct = Rat(9, 10)

\* C13 -- The sensitivity sweep has exactly 11 points, with the multipliers
\* 50, 60, ..., 150 in this order, whenever the profit of the deal is positive,
\* and no point at all whenever it is zero or negative.
C13_SweepPoints ==
    LET points == sensitivity
    IN  /\ Gt(results.totalProfit, Zero) =>
               /\ Len(points) = 11
               /\ \A j \in 1..11 : points[j].profitMultiplier = 40 + 10 * j
        /\ Leq(results.totalProfit, Zero) => points = << >>

\* A profitable deal whose sweep runs from 50 to 150.
C13_Witness ==
    /\ Gt(results.totalProfit, Zero)
    /\ Len(sensitivity) = 11
    /\ sensitivity[1].profitMultiplier = 50
    /\ sensitivity[11].profitMultiplier = 150

\* A deal that exactly breaks even, and a deal at a loss: no sweep.
C13_WitnessNoProfit ==
    /\ inputs.sellPrice # Zero
    /\ Leq(results.totalProfit, Zero)
    /\ sensitivity = << >>

\* derive at the sale price of a sweep point, for each model.
AtSample(pt) ==
    [m \in Models |-> computeResults(m, Assign(inputs, "sellPrice", pt.sellPrice))]

\* What C14 says of one sweep point.
SampleReproduced(pt) ==
    LET at == AtSample(pt)
    IN  /\ \A m \in Models :
               at[m].totalProfit =
                   Mul(results.totalProfit, Rat(pt.profitMultiplier, 100))
        /\ pt.slidingJusur = at["SLIDING"].jusurProfitCut
        /\ pt.slidingInvestor = at["SLIDING"].investorProfit
        /\ pt.progressiveJusur = at["PROGRESSIVE"].jusurProfitCut
        /\ pt.progressiveInvestor = at["PROGRESSIVE"].investorProfit
        /\ pt.flatJusur = at["FLAT"].jusurProfitCut
        /\ pt.flatInvestor = at["FLAT"].investorProfit
        /\ pt.roiJusur = at["ROI"].jusurProfitCut
        /\ pt.roiInvestor = at["ROI"].investorProfit

\* C14 as stated: for every point of the sweep, derive at the point's sale
\* price (all other inputs unchanged) gives a profit of multiplier / 100 times
\* the profit of the deal, and the point's cut and investor profit of each of
\* the four models are those of derive at that sale price.
C14_SamplesReproduced ==
    \A j \in DOMAIN sensitivity : SampleReproduced(sensitivity[j])

\* The share the ROI tiers give to an ROI of 0.
RoiShareAtZero ==
    IF Leq(Zero, OrZero(inputs, "roiTier1"))
    THEN Div(OrZero(inputs, "roiPct1"), Num(100))
    ELSE IF Leq(Zero, OrZero(inputs, "roiTier2"))
    THEN Div(OrZero(inputs, "roiPct2"), Num(100))
    ELSE Div(OrZero(inputs, "roiPct3"), Num(100))

\* C15 -- derive returns a result whose every field is a finite number for
\* finite inputs: investorROI is 0 when costToBuy is not above 0, the
\* investor's percentage of the profit (and the share) is 0 when totalProfit
\* is not above 0, the ROI the tiers look at is 0 when costToBuy is not above
\* 0, and Progressive divides by totalProfit only when it is above 0.
C15_DeriveTotal ==
    LET r == results
    IN  /\ \A k \in DOMAIN r : IsFinite(r[k])
        /\ ~Gt(r.costToBuy, Zero) => r.investorROI = Zero
        /\ ~Gt(r.totalProfit, Zero) =>
               /\ r.investorProfitPercent = Zero
               /\ r.jusurPct = Zero
        /\ (/\ model = "ROI"
            /\ Gt(r.totalProfit, Zero)
            /\ ~Gt(r.costToBuy, Zero)) => r.jusurPct = RoiShareAtZero

\* A profit made at no cost under the ROI tiers: the ROI counts as 0 and the
\* first tier's share applies, although a later tier holds a different one.
C15_Witness ==
    /\ model = "ROI"
    /\ results.costToBuy = Zero
    /\ Gt(results.totalProfit, Zero)
    /\ inputs.roiPct1 = Num(20)
    /\ inputs.roiPct3 = Num(40)
    /\ results.jusurPct = Rat(1, 5)
    /\ results.investorROI = Zero

\* The price of C16, written from the fields of the deal:
\* (costToBuy * (1 + targetROIPct / 100) + fixedAgentComm + otherExpenses)
\*     / (1 - sellCommRate - agentCommRate - taxRate).
StatedQuotient ==
    LET costToBuy == results.costToBuy
        growth == Add(Num(1), Div(inputs.targetROI, Num(100)))
        fixedAgentComm == IF inputs.useAgentPct THEN Zero
                          ELSE inputs.agentCommAmount
        sellCommRate == Div(inputs.sellCommPct, Num(100))
        agentCommRate == IF inputs.useAgentPct
                         THEN Div(inputs.agentCommPct, Num(100))
                         ELSE Zero
        taxRate == IF inputs.useRetTax
                   THEN Div(inputs.retTaxPct, Num(100))
                   ELSE Zero
    IN  Div(Add(Add(Mul(costToBuy, growth), fixedAgentComm),
                inputs.otherExpenses),
            Sub(Sub(Sub(Num(1), sellCommRate), agentCommRate), taxRate))

\* C16 -- The break-even solver returns the larger of 0 and
\* (costToBuy * (1 + targetROIPct / 100) + fixedAgentComm + otherExpenses)
\* / (1 - sellCommRate - agentCommRate - taxRate), where agentCommRate is 0 in
\* fixed-amount mode, fixedAgentComm is 0 in percentage mode and taxRate is 0
\* when the tax is off; the price returned is never negative.
C16_BreakEvenFormula ==
    LET price == breakEven
    IN  /\ price = Max(Zero, StatedQuotient)
        /\ ~Lt(price, Zero)

\* Fixed agent fee of 50,000, tax on, other expenses of 10,000, a cost of
\* 1,000,000 and a target of 10%: 1,160,000 / 0.96.
C16_Witness ==
    /\ results.costToBuy = Num(1000000)
    /\ inputs.targetROI = Num(10)
    /\ ~inputs.useAgentPct
    /\ inputs.agentCommAmount = Num(50000)
    /\ inputs.agentCommPct = Num(50)
    /\ inputs.useRetTax
    /\ inputs.otherExpenses = Num(10000)
    /\ inputs.sellCommPct = Rat(3, 2)
    /\ breakEven = Rat(3625000, 3)

\* Rates above 100% with a positive numerator: the negative quotient is
\* returned as 0.
C16_WitnessFloor ==
    /\ Lt(StatedQuotient, Zero)
    /\ breakEven = Zero

\* Other settings of the fields that belong to the sharing models, and another
\* current sale price.
OtherModelSides ==
    [sellPrice : {Zero, Num(7200000)},
     flatPct : {Num(30), Num(95)},
     roiTier1 : {Num(20)},
     roiTier2 : {Num(10)},
     roiPct1 : {Num(150)},
     roiPct2 : {Num(-10)},
     roiPct3 : {Zero, Num(40)}]

\* The deal with the model side replaced.
WithModelSide(p, side) ==
    [k \in DOMAIN p |-> IF k \in DOMAIN side THEN side[k] ELSE p[k]]

\* C17 -- The break-even price does not depend on the sharing model: two
\* deals that differ only in the model chosen, in the fields that belong to a
\* model (flatPct, the ROI tiers and their shares) or in the current sale
\* price have the same break-even price.
C17_BreakEvenModelIndependent ==
    LET price == breakEven
    IN  \A side \in OtherModelSides :
            breakEvenPrice(WithModelSide(inputs, side)) = price

\* A deal with a break-even price of 1,160,000 / 0.96 under Flat, whose model
\* side differs from every other one it is compared with.
C17_Witness ==
    /\ model = "FLAT"
    /\ breakEven = Rat(3625000, 3)
    /\ inputs.sellPrice = Num(3000000)
    /\ \A side \in OtherModelSides : WithModelSide(inputs, side) # inputs

\* C18 -- derive computes netSaleRevenue = sellPrice - sellCommAmount -
\* agentCommAmount - retTaxAmount - otherExpenses and totalProfit =
\* netSaleRevenue - costToBuy, where agentCommAmount is sellPrice *
\* agentCommPct / 100 in percentage mode and the agentCommAmount typed
\* otherwise, and retTaxAmount is sellPrice * retTaxPct / 100 when the tax is
\* switched on and 0 otherwise.
C18_NetRevenueAndProfit ==
    LET r == results
        sellPrice == inputs.sellPrice
        agent == IF inputs.useAgentPct
                 THEN Div(Mul(sellPrice, inputs.agentCommPct), Num(100))
                 ELSE inputs.agentCommAmount
        tax == IF inputs.useRetTax
               THEN Div(Mul(sellPrice, inputs.retTaxPct), Num(100))
               ELSE Zero
    IN  /\ r.agentCommAmount = agent
        /\ r.retTaxAmount = tax
        /\ r.netSaleRevenue =
               Sub(Sub(Sub(Sub(sellPrice, r.sellCommAmount), agent), tax),
                   inputs.otherExpenses)
        /\ r.totalProfit = Sub(r.netSaleRevenue, r.costToBuy)

\* Fixed agent fee, tax on and other expenses, all three deducted:
\* 3,000,000 - 45,000 - 50,000 - 75,000 - 10,000 = 2,820,000.
C18_Witness ==
    /\ inputs.sellPrice = Num(3000000)
    /\ inputs.sellCommPct = Rat(3, 2)
    /\ ~inputs.useAgentPct
    /\ inputs.agentCommPct = Num(50)
    /\ inputs.agentCommAmount = Num(50000)
    /\ inputs.useRetTax
    /\ inputs.otherExpenses = Num(10000)
    /\ results.netSaleRevenue = Num(2820000)
    /\ results.costToBuy = Num(1010000)
    /\ results.totalProfit = Num(1810000)

\* Percentage mode with the tax off: the amount typed for fixed mode and the
\* tax rate are both ignored.
C18_WitnessPercentage ==
    /\ inputs.sellPrice = Num(3000000)
    /\ inputs.useAgentPct
    /\ inputs.agentCommPct = Num(50)
    /\ inputs.agentCommAmount = Num(50000)
    /\ ~inputs.useRetTax
    /\ results.agentCommAmount = Num(1500000)
    /\ results.retTaxAmount = Zero

\* The share schedule of the ROI tiers: the points (ROI, share) that derive
\* gives at the typed sale prices that leave a profit, all else equal.
RoiSchedule ==
    LET derived == {computeResults("ROI",
                        Assign(inputs, "sellPrice",
                               parseNumberInput(formatNumberInput(rawValue)))) :
                       rawValue \in ModelTyped.sellPrice}
    IN  {[roi |-> IF Gt(r.costToBuy, Zero)
                  THEN Mul(Div(r.totalProfit, r.costToBuy), Num(100))
                  ELSE Zero,
          sharePct |-> r.jusurPct,
          finite |-> \A k \in DOMAIN r : IsFinite(r[k])] :
            r \in {d \in derived : Gt(d.totalProfit, Zero)}}

\* The share rises somewhere along the schedule.
Rises(schedule) ==
    \E a, b \in schedule : Lt(a.roi, b.roi) /\ Lt(a.sharePct, b.sharePct)

\* The share falls somewhere along the schedule.
Falls(schedule) ==
    \E a, b \in schedule : Lt(a.roi, b.roi) /\ Gt(a.sharePct, b.sharePct)

\* roiTier2 < roiTier1
Misordered == Lt(inputs.roiTier2, inputs.roiTier1)

\* C19 as stated: when roiTier2 < roiTier1, derive does not reject the deal,
\* the lookup is carried out, and the share as a function of the ROI is
\* non-monotonic (it rises somewhere and falls somewhere), looked at where the
\* schedule has at least three points.
C19_MisorderedIsNonMonotonic ==
    LET schedule == RoiSchedule
    IN  (Misordered /\ Cardinality(schedule) >= 3) =>
            /\ \A pt \in schedule : pt.finite
            /\ Rises(schedule)
            /\ Falls(schedule)

\* C19 -- When roiTier2 < roiTier1, derive does not reject the deal and the
\* lookup is carried out: the share is roiPct1 / 100 up to and including
\* roiTier1 and roiPct3 / 100 above it, roiPct2 is never used, and the share as
\* a function of the ROI is a single step, hence monotonic (it does not both
\* rise and fall).
C19_MisorderedIsOneStep ==
    Misordered =>
        LET schedule == RoiSchedule
        IN  /\ \A pt \in schedule :
                   /\ pt.finite
                   /\ pt.sharePct =
                          IF Leq(pt.roi, inputs.roiTier1)
                          THEN Div(inputs.roiPct1, Num(100))
                          ELSE Div(inputs.roiPct3, Num(100))
            /\ ~(Rises(schedule) /\ Falls(schedule))

\* Tiers typed as 20 and 10 with shares of 20, 30 and 40: at an ROI of 20 the
\* share is 0.20, the schedule goes on to 0.40 above, and 0.30 is at no point.
C19_Witness ==
    /\ model = "ROI"
    /\ inputs.roiTier1 = Num(20)
    /\ inputs.roiTier2 = Num(10)
    /\ inputs.roiPct1 = Num(20)
    /\ inputs.roiPct2 = Num(30)
    /\ inputs.roiPct3 = Num(40)
    /\ RoiBeforeCut = Num(20)
    /\ results.jusurPct = Rat(1, 5)
    /\ \E pt \in RoiSchedule : pt.sharePct = Rat(2, 5)
    /\ \A pt \in RoiSchedule : pt.sharePct # Rat(3, 10)
    /\ Cardinality(RoiSchedule) >= 3

\* The deal with another holding period, all else equal.
HeldFor(months) == Assign(inputs, "holdingMonths", Num(months))

\* C21 -- holdingMonths is not used by the core math: two deals that differ
\* only in holdingMonths have the same derive results, the same break-even
\* price and the same sensitivity points.
C21_HoldingMonthsUnused ==
    LET r == results
        price == breakEven
        points == sensitivity
    IN  \A months \in {8} :
            LET other == HeldFor(months)
                otherResults == computeResults(model, other)
            IN  /\ otherResults = r
                /\ breakEvenPrice(other) = price
                /\ sensitivityData(other, otherResults) = points

\* A profitable deal with a cost, a target and a sweep, held for 0 months and
\* compared with the same deal held for 8.
C21_Witness ==
    /\ inputs.holdingMonths = Zero
    /\ HeldFor(8) # inputs
    /\ results.costToBuy = Num(1000000)
    /\ Gt(results.totalProfit, Zero)
    /\ Gt(breakEven, Zero) /\ IsFinite(breakEven)
    /\ Len(sensitivity) = 11

\* C22 -- The service worker answers cache-first with a background update: a
\* request of its own origin is answered with the cached response whenever
\* there is one and with the network's response otherwise, a network fetch is
\* started in both cases, the network's response is written to the cache only
\* when its status is 200, and a request of another origin is not intercepted.
C22_CacheFirst ==
    /\ \A e \in 1..Len(fetches) :
           LET f == fetches[e]
           IN  IF f.request.origin = Origin
               THEN /\ f.intercepted
                    /\ f.at # "match" =>
                           /\ f.fetchStarted
                           /\ f.cachedResponse # None =>
                                  f.response = f.cachedResponse
                           /\ f.cachedResponse = None =>
                                  f.response = f.networkResponse
                    /\ f.at = "put" => f.networkResponse.status = 200
               ELSE /\ ~f.intercepted
                    /\ ~f.fetchStarted
                    /\ f.response = None
    /\ \A path \in DOMAIN caches : caches[path].status = 200

\* The page is answered with version 1 from the cache while the network gives
\* version 2 with status 200, which is in the cache afterwards; and a request
\* of another origin has gone past.
C22_Witness ==
    /\ Len(fetches) = 2
    /\ fetches[1].request.origin # Origin
    /\ fetches[2].request.path = "/"
    /\ fetches[2].at = "done"
    /\ fetches[2].response = [status |-> 200, body |-> 1]
    /\ fetches[2].networkResponse = [status |-> 200, body |-> 2]
    /\ caches["/"] = [status |-> 200, body |-> 2]

\* Nothing cached for the path and the network answers 404: the event gets
\* the 404 and the cache does not.
C22_WitnessNotFound ==
    /\ Len(fetches) >= 1
    /\ fetches[1].request.path = "/favicon.ico"
    /\ fetches[1].at = "done"
    /\ fetches[1].cachedResponse = None
    /\ fetches[1].response = [status |-> 404, body |-> 1]
    /\ "/favicon.ico" \notin DOMAIN caches

\* C23 as stated: for every model and every deal with totalProfit > 0, the
\* cut and the investor's profit add up to the profit, and the investor's
\* percentage of the profit is (1 - share) * 100.
C23_ProfitConserved ==
    LET r == results
    IN  Gt(r.totalProfit, Zero) =>
            /\ Add(r.jusurProfitCut, r.investorProfit) = r.totalProfit
            /\ r.investorProfitPercent =
                   Mul(Sub(Num(1), r.jusurPct), Num(100))

\* C24 -- For every model and every deal with buyPrice >= 0 and buyCommPct >=
\* 0, the cut, the investor's profit and the investor's ROI are not negative
\* and the investor's final return is at least costToBuy; on a deal at a loss
\* the investor's profit is 0 and the final return equals costToBuy, so the
\* loss shows in totalProfit alone.
C24_NothingNegative ==
    LET r == results
    IN  (Geq(inputs.buyPrice, Zero) /\ Geq(inputs.buyCommPct, Zero)) =>
            /\ Geq(r.jusurProfitCut, Zero)
            /\ Geq(r.investorProfit, Zero)
            /\ Geq(r.investorROI, Zero)
            /\ Geq(r.investorFinalReturn, r.costToBuy)
            /\ Lt(r.totalProfit, Zero) =>
                   /\ r.jusurProfitCut = Zero
                   /\ r.investorProfit = Zero
                   /\ r.investorFinalReturn = r.costToBuy

\* A deal bought for 1,000,000 and sold for nothing under Flat at 30%: the
\* loss of 1,000,000 is in totalProfit and nowhere else.
C24_Witness ==
    /\ model = "FLAT"
    /\ inputs.flatPct = Num(30)
    /\ results.totalProfit = Num(-1000000)
    /\ results.jusurProfitCut = Zero
    /\ results.investorProfit = Zero
    /\ results.investorFinalReturn = Num(1000000)

\* A share above 1 under the ROI tiers: the investor's profit stops at 0.
C24_WitnessOverOne ==
    /\ model = "ROI"
    /\ Gt(results.totalProfit, Zero)
    /\ Gt(results.jusurPct, Num(1))
    /\ results.investorProfit = Zero

\* The three models whose share does not come from the ROI tiers.
ProfitModels == {"SLIDING", "PROGRESSIVE", "FLAT"}

\* derive under model m at each typed sale price, all else equal.
AtTypedPrices(m) ==
    {computeResults(m, Assign(inputs, "sellPrice",
                              parseNumberInput(formatNumberInput(rawValue)))) :
        rawValue \in SweepTyped.sellPrice}

\* Between two deals that differ in the sale price only, the one with the
\* higher profit has at least the cut and at least the investor's profit of
\* the other.
MonotoneInProfit(m) ==
    LET derived == AtTypedPrices(m)
    IN  \A a, b \in derived :
            Lt(a.totalProfit, b.totalProfit) =>
                /\ Leq(a.jusurProfitCut, b.jusurProfitCut)
                /\ Leq(a.investorProfit, b.investorProfit)

\* The cut and the investor's profit of the three models do not decrease from
\* one point of the sweep to the next.
SweepNonDecreasing ==
    LET points == sensitivity
    IN  \A j \in 1..(Len(points) - 1) :
            /\ Leq(points[j].slidingJusur, points[j + 1].slidingJusur)
            /\ Leq(points[j].slidingInvestor, points[j + 1].slidingInvestor)
            /\ Leq(points[j].progressiveJusur, points[j + 1].progressiveJusur)
            /\ Leq(points[j].progressiveInvestor,
                   points[j + 1].progressiveInvestor)
            /\ Leq(points[j].flatJusur, points[j + 1].flatJusur)
            /\ Leq(points[j].flatInvestor, points[j + 1].flatInvestor)

\* C25 as stated: under Sliding, Progressive and Flat a higher profit never
\* lowers the cut or the investor's profit (two deals that differ only in the
\* sale price), and so the cut and the investor's profit of these three
\* models are non-decreasing along the points of the sweep.
C25_MonotoneInProfit ==
    /\ \A m \in ProfitModels : MonotoneInProfit(m)
    /\ SweepNonDecreasing

\* C26 -- Under the ROI tiers, whenever roiTier2 <= roiTier1 the middle share
\* roiPct2 is never selected for a positive profit: the share is roiPct1 / 100
\* when the ROI is at most roiTier1 and roiPct3 / 100 otherwise.
C26_MiddleShareSkipped ==
    LET r == results
    IN  (/\ model = "ROI"
         /\ Gt(r.totalProfit, Zero)
         /\ Leq(inputs.roiTier2, inputs.roiTier1)) =>
            r.jusurPct = IF Leq(RoiBeforeCut, inputs.roiTier1)
                         THEN Div(inputs.roiPct1, Num(100))
                         ELSE Div(inputs.roiPct3, Num(100))

\* Both tiers typed as 10 and an ROI of exactly 10: the first share (20%) is
\* used, not the middle one (30%).
C26_Witness ==
    /\ model = "ROI"
    /\ inputs.roiTier1 = Num(10)
    /\ inputs.roiTier2 = Num(10)
    /\ inputs.roiPct1 = Num(20)
    /\ inputs.roiPct2 = Num(30)
    /\ inputs.roiPct3 = Num(40)
    /\ RoiBeforeCut = Num(10)
    /\ results.jusurPct = Rat(1, 5)

\* Tiers typed as 20 and 10 and an ROI of 30: the last share is used.
C26_WitnessAbove ==
    /\ model = "ROI"
    /\ inputs.roiTier1 = Num(20)
    /\ inputs.roiTier2 = Num(10)
    /\ inputs.roiPct2 = Num(30)
    /\ inputs.roiPct3 = Num(40)
    /\ RoiBeforeCut = Num(30)
    /\ results.jusurPct = Rat(2, 5)

\* The cut and the investor's profit that a point of the sweep holds for the
\* model m.
PointSplit(pt, m) ==
    IF m = "SLIDING" THEN <<pt.slidingJusur, pt.slidingInvestor>>
    ELSE IF m = "PROGRESSIVE"
    THEN <<pt.progressiveJusur, pt.progressiveInvestor>>
    ELSE IF m = "FLAT" THEN <<pt.flatJusur, pt.flatInvestor>>
    ELSE <<pt.roiJusur, pt.roiInvestor>>

\* C27 as stated: for every deal with a positive profit, the point of the
\* sweep at the multiplier 100 reproduces the deal: its sale price is the
\* sellPrice of the deal, and its cut and investor's profit for the selected
\* model are those of the deal's results.
C27_BasePointReproduced ==
    LET r == results
    IN  Gt(r.totalProfit, Zero) =>
            LET pt == sensitivity[6]
            IN  /\ pt.profitMultiplier = 100
                /\ pt.sellPrice = inputs.sellPrice
                /\ PointSplit(pt, model) =
                       <<r.jusurProfitCut, r.investorProfit>>

\* Every amount and every percentage of the deal is 0 or above.
NonNegativeInputs == \A k \in NumericKeys : Geq(inputs[k], Zero)

\* C28 -- For a deal whose amounts and percentages are all non-negative, a
\* sweep that is not empty means that 1 - sellCommRate - agentCommRate -
\* taxRate is above 0, so the sweep never divides by zero: the sale price of
\* every point is finite and positive, and the sale prices are strictly
\* increasing in the multiplier.
C28_SweepPricesPositive ==
    LET points == sensitivity
    IN  (NonNegativeInputs /\ Len(points) > 0) =>
            /\ Gt(RateDenominator(inputs), Zero)
            /\ \A j \in 1..Len(points) :
                   /\ IsFinite(points[j].sellPrice)
                   /\ Gt(points[j].sellPrice, Zero)
            /\ \A j \in 1..(Len(points) - 1) :
                   Lt(points[j].sellPrice, points[j + 1].sellPrice)

\* A sweep over a deal with a selling commission of 50%, a fixed agent fee and
\* other expenses: the denominator is 1/2 and the prices rise from the first
\* point to the last.
C28_Witness ==
    /\ NonNegativeInputs
    /\ Len(sensitivity) = 11
    /\ RateDenominator(inputs) = Rat(1, 2)
    /\ ~inputs.useAgentPct
    /\ inputs.agentCommAmount = Num(50000)
    /\ inputs.otherExpenses = Num(10000)
    /\ Lt(sensitivity[1].sellPrice, inputs.sellPrice)
    /\ Lt(inputs.sellPrice, sensitivity[11].sellPrice)

\* C29: savedDeals changes only by saveDeal with a name that is not blank,
\* which puts a snapshot of the current model, inputs and results (under the
\* trimmed name) in front of the list; and loadDeal on any saved snapshot,
\* whatever was typed since, leaves the live results equal to the results the
\* snapshot stores.
C29_SavedDealRoundTrip ==
    [][/\ savedDeals' # savedDeals =>
              /\ trim(dealName) # << >>
              /\ savedDeals' # << >>
              /\ Tail(savedDeals') = savedDeals
              /\ Head(savedDeals').name = trim(dealName)
              /\ Head(savedDeals').model = model
              /\ Head(savedDeals').inputs = inputs
              /\ Head(savedDeals').results = results
       /\ \A i \in 1..Len(savedDeals) :
              loadDeal(i) =>
                  /\ model' = savedDeals[i].model
                  /\ inputs' = savedDeals[i].inputs
                  /\ computeResults(model', inputs') = savedDeals[i].results
      ]_vars

\* Two different deals were saved, the older one with a profit, and the form
\* holds the older one again: it was loaded after the changes.
C29_Witness ==
    /\ Len(savedDeals) = 2
    /\ savedDeals[1].model # savedDeals[2].model
    /\ savedDeals[1].inputs # savedDeals[2].inputs
    /\ Gt(savedDeals[2].results.jusurProfitCut, Zero)
    /\ savedDeals[2].name = <<"A">>
    /\ model = savedDeals[2].model
    /\ inputs = savedDeals[2].inputs
    /\ results = savedDeals[2].results

\* The mount is under way: an effect or a queued update is still to come.
Mounting ==
    \/ pendingEffects # << >>
    \/ queued # [savedDeals |-> None, savedProfiles |-> None]

\* C30: while the page mounts, a list stored under jusur_saved_deals or
\* jusur_saved_profiles is never replaced by another one, and once the mount
\* is over savedDeals and savedProfiles are the lists that are stored.
C30_PersistedSurviveMount ==
    [][/\ \A key \in DOMAIN localStorage :
              localStorage[key] # None =>
                  localStorage'[key] = localStorage[key]
       /\ ~Mounting' =>
              /\ localStorage'.jusur_saved_deals = JSONstringify(savedDeals')
              /\ localStorage'.jusur_saved_profiles =
                     JSONstringify(savedProfiles')
      ]_vars

\* What does hold: once the mount is over, what an earlier visit left is what
\* is stored again and what the state holds.
C30_RestoredAfterMount ==
    ~Mounting =>
        /\ localStorage.jusur_saved_deals = JSONstringify(savedDeals)
        /\ localStorage.jusur_saved_profiles = JSONstringify(savedProfiles)

\* The save effect of the first render has written the empty list over two
\* persisted deals that are queued to become the state.
C30_Overwritten ==
    /\ queued.savedDeals # None
    /\ Len(queued.savedDeals.value) = 2
    /\ localStorage.jusur_saved_deals = JSONstringify(<< >>)

====
